---- MODULE Spec2Model ----
(***************************************************************************)
(* Octomind -> Allure converter (src/src/converter.ts).                    *)
(*                                                                         *)
(* The model follows one OctomindToAllureConverter instance.  Its public   *)
(* methods are asynchronous: every `await fetch(...)` is a point where the *)
(* remote service answers, so a method is a chain of steps, one per        *)
(* resumption, with `pc` the position of the single thread of control.       *)
(*                                                                         *)
(* Numbers with Infinity (maxReports = options.maxReports || Infinity) are *)
(* written as sequences: << >> is Infinity, <<m>> is the number m.  An     *)
(* optional argument is written the same way: << >> is undefined.          *)
(***************************************************************************)
EXTENDS Integers, Sequences, FiniteSets, TLC

\* ------------------------------------------------------------------ bounds
NumIds == 2          \* report ids the server may use: 1..NumIds
MaxPageLen == 2      \* longest page (items of page.data)
MaxPages == 2        \* longest scripted run of pages
MaxCap == 2          \* largest maxReports argument tried
NumCursors == 1      \* cursor values an unscripted server may return
MaxRuns == 2         \* conversions run one after another on one converter instance

ReportIds == 1..NumIds
Cursors == 1..NumCursors
NoCursor == 0        \* keyCreatedAt undefined, or key.createdAt missing or empty (falsy)

\* Page requests the model lets one call issue.  The code issues at most
\* NumIds + 1 (each request but the last brings a new id), so the guard
\* never binds on the code as written.
MaxRequests == NumIds + 3

\* ------------------------------------------------------------- the server
Range(s) == {s[k] : k \in 1..Len(s)}

DataSeqs == UNION {[1..n -> ReportIds] : n \in 0..MaxPageLen}

\* OctomindTestReportsPage: data (the reports, by id), key.createdAt, hasNextPage
Pages == [data : DataSeqs, key : Cursors \cup {NoCursor}, hasNextPage : BOOLEAN]

EmptyPage == [data |-> << >>, key |-> NoCursor, hasNextPage |-> FALSE]

NoDup(s) == \A a, b \in 1..Len(s) : a # b => s[a] # s[b]

\* A scripted server: a fixed, finite run of pages, each but the last with
\* hasNextPage = true and a next cursor, the last with hasNextPage = false.
\* It is a keyset server: the cursor returned with page k is k, and a request
\* carrying cursor k is answered with page k + 1 (no cursor: page 1).
ScriptsOfLen(n) ==
    {[k \in 1..n |-> [data |-> d[k], key |-> k, hasNextPage |-> k < n]] :
        d \in [1..n -> {s \in DataSeqs : NoDup(s)}]}

Scripts == UNION {ScriptsOfLen(n) : n \in 1..MaxPages}

\* << >> is the server with no script: it answers every request with any page.
Servers == Scripts \cup {<< >>}

\* options.maxReports: undefined, or a number (a negative one included)
MaxReportsArgs == {<< >>} \cup {<<m>> : m \in -1..MaxCap}

\* ---------------------------------------------------------------- state
VARIABLES
    pc,            \* position of the running method ("idle": none running)
    mode,          \* the method called: "fetchAll" | "batch" | "single"
    script,        \* the pages the server will serve to this call (<< >>: any)
    requests,      \* page requests issued by the current fetchAllTestReports
    reqKey,        \* keyCreatedAt carried by the page request in flight
    page,          \* the page response received and not yet processed
    allReports,    \* fetchAllTestReports: const allReports
    seenIds,       \* fetchAllTestReports: const seenIds
    hasNextPage,   \* fetchAllTestReports: let hasNextPage
    keyCreatedAt,  \* fetchAllTestReports: let keyCreatedAt
    maxReports,    \* fetchAllTestReports: const maxReports (<< >>: Infinity)
    maxArg,        \* options.maxReports as passed by the caller (<< >>: undefined or NaN)
    result,        \* what fetchAllTestReports returned
    warning,       \* the console.warn of the current fetchAllTestReports, if any
    testCaseCache, \* this.testCaseCache: cache key -> << >> (no entry) or <<Case>>
    testReports,   \* the reports being converted (batch: the pagination's result)
    i,             \* convertMultipleReports: index of the report being converted
    resultIndex,   \* convertTestReportToAllure: index of the result being converted
    testResultUuids, \* convertTestReportToAllure: const testResultUuids
    pendingCase,   \* <<testTargetId, testCaseId>> of the case request in flight
    outputDir,     \* the files of the working output directory
    reportHistory, \* allure-report/history: << >> (absent) or <<tag of the run that made it>>
    uuids,         \* randomUUID() values handed out so far
    rendered,      \* report ids the renderer was run for, in order, in this run
    clears,        \* testCaseCache.clear() calls of this run
    fetchCount,    \* remote Case fetches per (target, case) since the last clear
    lookupCount,   \* fetchTestCase calls per (target, case) since the last clear
    runs,          \* conversions started on this instance
    testReportId,  \* convertAndWrite: the report asked for (<< >>: none)
    failure,       \* the error that ended the run ("none": no error)
    testCase,      \* convertTestReportToAllure: const testCase (<< >>: none yet)
    fetchedCase,   \* the Case a fetchTestCase call resolved with, its caller not yet resumed
    outputDirName, \* the outputDir argument of the running conversion (<< >>: undefined)
    argv,          \* main: process.argv.slice(2) (<< >>: main not entered)
    exitCode,      \* the status the process exited with (<< >>: still running)
    input,         \* the arguments of the next convertTestResult call (<< >>: none)
    translated     \* the convertTestResult calls made: arguments and Output Result

pageVars == <<script, requests, reqKey, page, allReports, seenIds, hasNextPage,
              keyCreatedAt, maxReports, maxArg, result, warning>>

\* what the page steps of fetchAllTestReports leave alone
runVars == <<testCaseCache, resultIndex, testResultUuids, pendingCase, outputDir, reportHistory,
             uuids, rendered, clears, fetchCount, lookupCount, runs, testReportId,
             failure, argv, exitCode, input, translated, testCase, fetchedCase, outputDirName>>

vars == <<pc, mode, pageVars, testReports, i, runVars>>

\* ------------------------------------------------- fetchAllTestReports
\* options?.maxReports || Infinity : undefined, NaN and 0 are falsy
EffectiveMax(arg) == IF arg = << >> \/ arg[1] = 0 THEN << >> ELSE arg

\* (mutant) the count is never taken to have reached the maximum
BelowAlways(n, max) == TRUE

\* n < max, max possibly Infinity
Below(n, max) == max = << >> \/ n < max[1]

\* (mutant) the filter dropped: every report of the page counts as new
NewReportsUnfiltered(data, seen) == data

\* page.data.filter(report => !seenIds.has(report.id)) : seenIds is the set
\* as it was before this page
NewReports(data, seen) == SelectSeq(data, LAMBDA id : id \notin seen)

\* array.slice(0, m): the first m items; for a negative m, all but the last -m
Slice(all, m) == SubSeq(all, 1, IF m < 0 THEN Len(all) + m ELSE m)

\* if (allReports.length > maxReports) return allReports.slice(0, maxReports)
Trim(all, max) == IF ~Below(Len(all), max) /\ Len(all) > max[1]
                  THEN Slice(all, max[1]) ELSE all

\* (mutant) the cursor is never advanced
NextCursorStale(p, old) == old

\* (mutant) the cursor is taken from every page, present or not
NextCursorUnguarded(p, old) == p.key

\* if (hasNextPage && page.key?.createdAt) keyCreatedAt = page.key.createdAt
NextCursor(p, old) == IF p.hasNextPage /\ p.key # NoCursor THEN p.key ELSE old

\* newReports.length === 0 && page.data.length > 0
DuplicatesOnly(p, seen) == Len(NewReports(p.data, seen)) = 0 /\ Len(p.data) > 0

\* (mutant) the safety check after an unproductive page is missing
NoProgressIgnored(p, seen) == FALSE

\* newReports.length === 0 && hasNextPage
NoProgress(p, seen) == Len(NewReports(p.data, seen)) = 0 /\ p.hasNextPage

\* while (hasNextPage && allReports.length < maxReports)
LoopCondition(more, all, max) == more /\ Below(Len(all), max)

\* Whether the loop goes round again after page p has been accumulated:
\* neither break taken, and the while condition true.
Continues(p, seen, all, max) ==
    /\ Below(Len(all), max)
    /\ ~NoProgress(p, seen)
    /\ LoopCondition(p.hasNextPage, all, max)

\* fetchAllTestReports returns `out` to its caller (convertMultipleReports
\* is resumed with it in the next step)
ReturnReports(out) ==
    /\ result' = out
    /\ IF mode = "batch"
       THEN /\ testReports' = out
            /\ i' = 1
            /\ pc' = "gotReports"
       ELSE /\ pc' = "done"
            /\ UNCHANGED <<testReports, i>>

\* The call: locals initialised; while the loop condition holds on entry
\* (0 < maxReports) the first page is requested with keyCreatedAt undefined,
\* otherwise the loop is skipped and the (empty) list returned.
FetchAllStart(arg, srv) ==
    /\ allReports' = << >>
    /\ seenIds' = {}
    /\ hasNextPage' = TRUE
    /\ keyCreatedAt' = NoCursor
    /\ maxArg' = arg
    /\ maxReports' = EffectiveMax(arg)
    /\ script' = srv
    /\ reqKey' = NoCursor
    /\ page' = EmptyPage
    /\ warning' = "none"
    /\ IF LoopCondition(TRUE, << >>, EffectiveMax(arg))
       THEN /\ requests' = 1
            /\ pc' = "awaitPage"
            /\ result' = << >>
            /\ UNCHANGED <<testReports, i>>
       ELSE /\ requests' = 0
            /\ ReturnReports(Trim(<< >>, EffectiveMax(arg)))

CallFetchAll ==
    /\ pc = "idle"
    /\ \E arg \in MaxReportsArgs, srv \in Servers : FetchAllStart(arg, srv)
    /\ mode' = "fetchAll"
    /\ UNCHANGED runVars

\* The pages the server may answer the pending request with: the scripted
\* server by the request's cursor (past its last page: an empty last page),
\* the unscripted one with any page.
ServerPages ==
    IF script = << >> THEN Pages
    ELSE IF reqKey + 1 <= Len(script) THEN {script[reqKey + 1]}
    ELSE {EmptyPage}

\* A page request is in flight.
PagePending == pc = "awaitPage" /\ requests <= MaxRequests

\* fetchTestReports: response.ok, the JSON body is the page
FetchPageOk ==
    /\ PagePending
    /\ \E p \in ServerPages : page' = p
    /\ pc' = "gotPage"
    /\ UNCHANGED <<mode, script, requests, reqKey, allReports, seenIds, hasNextPage,
                   keyCreatedAt, maxReports, maxArg, result, warning, testReports, i,
                   runVars>>

\* fetchTestReports: !response.ok, throws
FetchPageFails ==
    /\ PagePending
    /\ pc' = "failed"
    /\ failure' = "reports page"
    /\ UNCHANGED <<argv, exitCode, input, translated>>
    /\ UNCHANGED <<mode, pageVars, testReports, i, testCaseCache, resultIndex,
                   testResultUuids,
                   pendingCase, outputDir, reportHistory, uuids, rendered, clears,
                   fetchCount, lookupCount, runs, testReportId, testCase, fetchedCase, outputDirName>>

\* The loop body after the await, up to the next page request or the return.
ProcessPage ==
    /\ pc = "gotPage"
    /\ IF DuplicatesOnly(page, seenIds)
       THEN /\ warning' = "duplicates"
            /\ ReturnReports(Trim(allReports, maxReports))
            /\ UNCHANGED <<allReports, seenIds, hasNextPage, keyCreatedAt, requests, reqKey>>
       ELSE LET new == NewReports(page.data, seenIds)
                all == allReports \o new
                key == NextCursor(page, keyCreatedAt)
            IN  /\ allReports' = all
                /\ seenIds' = seenIds \cup Range(new)
                /\ hasNextPage' = page.hasNextPage
                /\ keyCreatedAt' = key
                /\ warning' = IF Below(Len(all), maxReports) /\ NoProgress(page, seenIds)
                              THEN "noProgress" ELSE "none"
                /\ IF Continues(page, seenIds, all, maxReports)
                   THEN /\ requests' = requests + 1
                        /\ reqKey' = key
                        /\ pc' = "awaitPage"
                        /\ UNCHANGED <<result, testReports, i>>
                   ELSE /\ ReturnReports(Trim(all, maxReports))
                        /\ UNCHANGED <<requests, reqKey>>
    /\ page' = EmptyPage
    /\ UNCHANGED <<mode, script, maxReports, maxArg, runVars>>

\* ------------------------------------------------------ the remote data
TargetIds == {"t1", "t2"}
CaseIds == {"c1", "c2"}
Pairs == TargetIds \X CaseIds

\* Identifiers with the character the cache key is joined with, for calls
\* of fetchTestCase itself; the pairs fetchTestCase is ever called with
ColonPairs == {<<"a:b", "c">>, <<"a", "b:c">>}
LookupPairs == Pairs \cup ColonPairs

\* OctomindTestResult (the fields the conversion loop reads)
ResultOf(t, c) == [testTargetId |-> t, testCaseId |-> c]

\* The report the service holds under an id: report 1 has two results, report
\* 2 repeats a case of report 1, report 3 belongs to another target, later
\* reports have no results.
ReportOf(id) ==
    CASE id = 1 -> [id |-> id, testTargetId |-> "t1",
                    testResults |-> <<ResultOf("t1", "c1"), ResultOf("t1", "c2")>>]
      [] id = 2 -> [id |-> id, testTargetId |-> "t1",
                    testResults |-> <<ResultOf("t1", "c2")>>]
      [] id = 3 -> [id |-> id, testTargetId |-> "t2",
                    testResults |-> <<ResultOf("t2", "c1")>>]
      [] OTHER -> [id |-> id, testTargetId |-> "t1", testResults |-> << >>]

\* The Case the service answers with, and the minimal one built on !response.ok
ServerCase(c) == [id |-> c, name |-> "name of " \o c, tags |-> <<"TEXT">>]
SyntheticCase(c) == [id |-> c, name |-> c, tags |-> << >>]

\* ------------------------------------------------------- fetchTestCase
\* const cacheKey = `${testTargetId}:${testCaseId}`
CacheKey(t, c) == t \o ":" \o c

Keys == {CacheKey(p[1], p[2]) : p \in LookupPairs}

\* new Map() / this.testCaseCache.clear()
EmptyCache == [key \in Keys |-> << >>]

\* (mutant) the cache is never consulted
CacheNeverHas(cache, key) == FALSE

\* this.testCaseCache.has(cacheKey)
CacheHas(cache, key) == cache[key] # << >>

\* this.testCaseCache.get(cacheKey)!
CacheGet(cache, key) == cache[key][1]

\* (mutant) storing an entry drops the others
CacheSetAlone(cache, key, case) == [EmptyCache EXCEPT ![key] = <<case>>]

\* this.testCaseCache.set(cacheKey, testCase)
CacheSet(cache, key, case) == [cache EXCEPT ![key] = <<case>>]

NoCounts == [p \in LookupPairs |-> 0]

Count(f, p) == [f EXCEPT ![p] = @ + 1]

\* ------------------------------------------------------- the file system
\* (mutant) the directory is made if missing, its files kept
WipeKeepsFiles(dir) == dir

\* wipeDirSync: rmSync(dir, recursive), mkdirSync(dir)
WipeDir(dir) == {}

\* `${uuid}-result.json` / `${uuid}-container.json`, written for a report;
\* children: the container's list of result uuids (<< >> in the other files)
File(kind, uuid, report, children) ==
    [kind |-> kind, uuid |-> uuid, report |-> report, children |-> children]

\* copyDirSync(historyDir, outputDir/history): the copy keeps the tag
HistoryFile(tag) == File("history", tag, 0, << >>)

\* (mutant) the history directory is never found
HistoryNeverExists(history) == FALSE

\* fs.existsSync(historyDir)
HistoryExists(history) == history # << >>

\* (mutant) the container lists no children
ContainerWithoutChildren(report, resultUuids, uuid) ==
    File("container", uuid, report.id, << >>)

\* convertToContainer: a fresh uuid, children: testResultUuids
ConvertToContainer(report, resultUuids, uuid) ==
    File("container", uuid, report.id, resultUuids)

\* ------------------------------------- convertMultipleReports / convertAndWrite
\* The servers a batch run is tried against: every one-page script, and
\* the script of two pages of one report each.
BatchServers ==
    ScriptsOfLen(1) \cup {s \in ScriptsOfLen(2) : s[1].data = <<1>> /\ s[2].data = <<2>>}

BatchMaxArgs == {<< >>, <<1>>, <<-1>>}

\* The outputDir a caller passes: a directory name, or the empty string
OutputDirs == {<<"./allure-results">>, <<"">>}

\* if (!fs.existsSync(outputDir)) fs.mkdirSync(outputDir, { recursive: true }):
\* nothing exists at undefined or '', and mkdirSync throws for both
NoDirectory(path) == path = << >> \/ path = <<"">>

\* (mutant) every conversion clears the cache
ClearsCacheAlways(m) == TRUE

\* this.testCaseCache.clear() is a statement of convertMultipleReports only
ClearsCache(m) == m = "batch"

CurrentReport == ReportOf(testReports[i])

\* (mutant) the loop stops one report early
InReportOffByOne == i < Len(testReports)

\* i < testReports.length (i counted from 1 here)
InReport == i <= Len(testReports)

CurrentResult == CurrentReport.testResults[resultIndex]

\* fetchTestCase(testReport.testTargetId, testResult.testCaseId)
CurrentPair == <<CurrentReport.testTargetId, CurrentResult.testCaseId>>

\* (mutant) the error is swallowed and the method returns
FailsSilently(what) ==
    /\ pc' = "done"
    /\ failure' = what
    /\ UNCHANGED <<argv, exitCode, input, translated>>

\* throw new Error(...), or an exception out of execFileSync / fetch
Fails(what) ==
    /\ pc' = "failed"
    /\ failure' = what
    /\ UNCHANGED <<argv, exitCode, input, translated>>

\* convertMultipleReports(testTargetId, outputDir, options) is entered and
\* requests the Target
StartBatch(maxArgs, dirs) ==
    /\ \E arg \in maxArgs, srv \in BatchServers : maxArg' = arg /\ script' = srv
    /\ \E dir \in dirs : outputDirName' = dir
    /\ mode' = "batch"
    /\ runs' = runs + 1
    /\ pc' = "awaitTarget"
    /\ UNCHANGED <<requests, reqKey, page, allReports, seenIds, hasNextPage, keyCreatedAt,
                   maxReports, result, warning, testReports, i, testCaseCache, resultIndex,
                   testResultUuids, pendingCase, outputDir, reportHistory, uuids,
                   rendered, clears, fetchCount, lookupCount, testReportId, failure,
                   exitCode, input, translated, testCase, fetchedCase>>

\* a caller holding the instance calls convertMultipleReports
CallBatch ==
    /\ pc = "idle"
    /\ runs < MaxRuns
    /\ StartBatch(BatchMaxArgs, OutputDirs)
    /\ UNCHANGED argv

\* convertAndWrite(testTargetId, testReportId, outputDir) is entered and
\* requests the Target
StartSingle(dirs) ==
    /\ \E rid \in ReportIds : testReportId' = <<rid>>
    /\ \E dir \in dirs : outputDirName' = dir
    /\ mode' = "single"
    /\ runs' = runs + 1
    /\ pc' = "awaitTarget"
    /\ UNCHANGED <<pageVars, testReports, i, testCaseCache, resultIndex, testResultUuids,
                   pendingCase, outputDir, reportHistory, uuids, rendered, clears,
                   fetchCount, lookupCount, failure, exitCode, input, translated,
                   testCase, fetchedCase>>

\* a caller holding the instance calls convertAndWrite
CallSingle ==
    /\ pc = "idle"
    /\ runs < MaxRuns
    /\ StartSingle(OutputDirs)
    /\ UNCHANGED argv

\* fetchTestTarget answered with success.  Batch: filters built, cache
\* cleared, fetchAllTestReports entered up to its first page request.
\* Single: fetchTestReport requested.
TargetOk ==
    /\ pc = "awaitTarget"
    /\ IF ClearsCache(mode)
       THEN /\ testCaseCache' = EmptyCache
            /\ clears' = clears + 1
            /\ fetchCount' = NoCounts
            /\ lookupCount' = NoCounts
       ELSE UNCHANGED <<testCaseCache, clears, fetchCount, lookupCount>>
    /\ IF mode = "batch"
       THEN FetchAllStart(maxArg, script)
       ELSE /\ pc' = "awaitReport"
            /\ UNCHANGED <<pageVars, testReports, i>>
    /\ UNCHANGED <<mode, resultIndex, testResultUuids, pendingCase, outputDir,
                   reportHistory, uuids, rendered, runs, testReportId, failure, argv, exitCode, input, translated, testCase, fetchedCase, outputDirName>>

\* fetchTestTarget: !response.ok, throws
TargetFails ==
    /\ pc = "awaitTarget"
    /\ Fails("target")
    /\ UNCHANGED <<mode, pageVars, testReports, i, testCaseCache, resultIndex, testResultUuids,
                   pendingCase, outputDir, reportHistory, uuids, rendered, clears,
                   fetchCount, lookupCount, runs, testReportId, testCase, fetchedCase, outputDirName>>

\* fetchTestReport answered with success: the output directory is made if
\* missing (not wiped; mkdirSync throws when it cannot be made) and the
\* report's results are converted.
ReportOk ==
    /\ pc = "awaitReport"
    /\ IF NoDirectory(outputDirName)
       THEN /\ Fails("output directory")
            /\ UNCHANGED <<testReports, i, resultIndex, testResultUuids>>
       ELSE /\ testReports' = <<testReportId[1]>>
            /\ i' = 1
            /\ resultIndex' = 1
            /\ testResultUuids' = << >>
            /\ pc' = "convert"
            /\ UNCHANGED <<failure, argv, exitCode, input, translated>>
    /\ UNCHANGED <<mode, pageVars, testCaseCache, pendingCase, outputDir, reportHistory,
                   uuids, rendered, clears, fetchCount, lookupCount, runs, testReportId,
                   testCase, fetchedCase, outputDirName>>

\* fetchTestReport: !response.ok, throws
ReportFails ==
    /\ pc = "awaitReport"
    /\ Fails("report")
    /\ UNCHANGED <<mode, pageVars, testReports, i, testCaseCache, resultIndex, testResultUuids,
                   pendingCase, outputDir, reportHistory, uuids, rendered, clears,
                   fetchCount, lookupCount, runs, testReportId, testCase, fetchedCase, outputDirName>>

\* convertMultipleReports resumed with the reports: the output directory is
\* made if missing (mkdirSync throws when it cannot be made), then the report
\* directory
MakeDirs ==
    /\ pc = "gotReports"
    /\ IF NoDirectory(outputDirName)
       THEN Fails("output directory")
       ELSE /\ pc' = "loop"
            /\ UNCHANGED <<failure, argv, exitCode, input, translated>>
    /\ UNCHANGED <<mode, pageVars, testReports, i, testCaseCache, resultIndex,
                   testResultUuids, pendingCase, outputDir, reportHistory, uuids, rendered,
                   clears, fetchCount, lookupCount, runs, testReportId, testCase,
                   fetchedCase, outputDirName>>

\* for (let i = 0; i < testReports.length; i++) { this.wipeDirSync(outputDir); ...
LoopReports ==
    /\ pc = "loop"
    /\ IF InReport
       THEN /\ outputDir' = WipeDir(outputDir)
            /\ resultIndex' = 1
            /\ testResultUuids' = << >>
            /\ pc' = "convert"
       ELSE /\ pc' = "done"
            /\ UNCHANGED <<outputDir, resultIndex, testResultUuids>>
    /\ UNCHANGED <<mode, pageVars, testReports, i, testCaseCache, pendingCase,
                   reportHistory, uuids, rendered, clears, fetchCount, lookupCount, runs,
                   testReportId, failure, argv, exitCode, input, translated, testCase, fetchedCase, outputDirName>>

\* fetchTestCase: cache hit, the stored Case is returned; the caller is
\* suspended in its await until the next step
LookupHit ==
    /\ pc = "convert"
    /\ resultIndex <= Len(CurrentReport.testResults)
    /\ CacheHas(testCaseCache, CacheKey(CurrentPair[1], CurrentPair[2]))
    /\ lookupCount' = Count(lookupCount, CurrentPair)
    /\ fetchedCase' = <<CacheGet(testCaseCache, CacheKey(CurrentPair[1], CurrentPair[2]))>>
    /\ pc' = "caseReturned"
    /\ UNCHANGED <<mode, pageVars, testReports, i, testCaseCache, resultIndex,
                   testResultUuids, pendingCase, outputDir, reportHistory, uuids, rendered,
                   clears, fetchCount, runs, testReportId, failure, argv, exitCode, input,
                   translated, testCase, outputDirName>>

\* fetchTestCase: cache miss, the Case is requested
LookupMiss ==
    /\ pc = "convert"
    /\ resultIndex <= Len(CurrentReport.testResults)
    /\ ~CacheHas(testCaseCache, CacheKey(CurrentPair[1], CurrentPair[2]))
    /\ lookupCount' = Count(lookupCount, CurrentPair)
    /\ fetchCount' = Count(fetchCount, CurrentPair)
    /\ pendingCase' = CurrentPair
    /\ pc' = "awaitCase"
    /\ UNCHANGED <<mode, pageVars, testReports, i, testCaseCache, resultIndex, testResultUuids,
                   outputDir, reportHistory, uuids, rendered, clears, runs, testReportId,
                   failure, argv, exitCode, input, translated, testCase, fetchedCase, outputDirName>>

\* The Case request answered with `case`: stored in the cache and returned;
\* the caller is suspended in its await until the next step
StoreCase(case) ==
    /\ testCaseCache' =
           CacheSet(testCaseCache, CacheKey(pendingCase[1], pendingCase[2]), case)
    /\ fetchedCase' = <<case>>
    /\ pendingCase' = << >>
    /\ pc' = "caseReturned"
    /\ UNCHANGED <<mode, pageVars, testReports, i, resultIndex, testResultUuids, outputDir,
                   reportHistory, uuids, rendered, clears, fetchCount, lookupCount, runs,
                   testReportId, failure, argv, exitCode, input, translated, testCase,
                   outputDirName>>

\* fetchTestCase: response.ok, the body is the Case
CaseOk ==
    /\ pc = "awaitCase"
    /\ StoreCase(ServerCase(pendingCase[2]))

\* fetchTestCase: !response.ok, minimal info
CaseNotOk ==
    /\ pc = "awaitCase"
    /\ StoreCase(SyntheticCase(pendingCase[2]))

\* fetchTestCase: fetch() rejects (network error) or response.json() throws
\* (malformed body); nothing catches it, nothing is stored
CaseThrows ==
    /\ pc = "awaitCase"
    /\ \E why \in {"case: network error", "case: malformed body"} : Fails(why)
    /\ UNCHANGED <<mode, pageVars, testReports, i, testCaseCache, resultIndex, testResultUuids,
                   pendingCase, outputDir, reportHistory, uuids, rendered, clears,
                   fetchCount, lookupCount, runs, testReportId, testCase, fetchedCase, outputDirName>>

\* const testCase = (the awaited Case); convertTestResult is called and takes
\* a fresh uuid; the caller is suspended in its await until the next step
ConvertResult ==
    /\ pc = "caseReturned"
    /\ testCase' = fetchedCase
    /\ fetchedCase' = << >>
    /\ uuids' = uuids + 1
    /\ pc' = "converted"
    /\ UNCHANGED <<mode, pageVars, testReports, i, testCaseCache, resultIndex,
                   testResultUuids, pendingCase, outputDir, reportHistory, rendered, clears,
                   fetchCount, lookupCount, runs, testReportId, failure, argv, exitCode,
                   input, translated, outputDirName>>

\* (mutant) the uuid is put at the front of the list
WriteResultUnshift ==
    /\ pc = "converted"
    /\ testResultUuids' = <<uuids>> \o testResultUuids
    /\ outputDir' = outputDir \cup {File("result", uuids, CurrentReport.id, << >>)}
    /\ resultIndex' = resultIndex + 1
    /\ pc' = "convert"
    /\ UNCHANGED <<mode, pageVars, testReports, i, testCaseCache, pendingCase,
                   reportHistory, uuids, rendered, clears, fetchCount, lookupCount, runs,
                   testReportId, failure, argv, exitCode, input, translated, testCase,
                   fetchedCase, outputDirName>>

\* testResultUuids.push(allureResult.uuid), writeFileSync: allureResult.uuid
\* is the uuid last handed out
WriteResult ==
    /\ pc = "converted"
    /\ testResultUuids' = Append(testResultUuids, uuids)
    /\ outputDir' = outputDir \cup {File("result", uuids, CurrentReport.id, << >>)}
    /\ resultIndex' = resultIndex + 1
    /\ pc' = "convert"
    /\ UNCHANGED <<mode, pageVars, testReports, i, testCaseCache, pendingCase,
                   reportHistory, uuids, rendered, clears, fetchCount, lookupCount, runs,
                   testReportId, failure, argv, exitCode, input, translated, testCase,
                   fetchedCase, outputDirName>>

\* convertTestReportToAllure returns; convertToContainer, writeFileSync
WriteContainer ==
    /\ pc = "convert"
    /\ resultIndex > Len(CurrentReport.testResults)
    /\ uuids' = uuids + 1
    /\ outputDir' =
           outputDir \cup {ConvertToContainer(CurrentReport, testResultUuids, uuids + 1)}
    /\ pc' = IF mode = "batch" THEN "history" ELSE "done"
    /\ UNCHANGED <<mode, pageVars, testReports, i, testCaseCache, resultIndex, testResultUuids,
                   pendingCase, reportHistory, rendered, clears, fetchCount, lookupCount,
                   runs, testReportId, failure, argv, exitCode, input, translated, testCase, fetchedCase, outputDirName>>

\* if (fs.existsSync(historyDir)) this.copyDirSync(historyDir, outputDir/history)
CopyHistory ==
    /\ pc = "history"
    /\ outputDir' = IF HistoryExists(reportHistory)
                    THEN outputDir \cup {HistoryFile(reportHistory[1])}
                    ELSE outputDir
    /\ pc' = "render"
    /\ UNCHANGED <<mode, pageVars, testReports, i, testCaseCache, resultIndex, testResultUuids,
                   pendingCase, reportHistory, uuids, rendered, clears, fetchCount,
                   lookupCount, runs, testReportId, failure, argv, exitCode, input, translated, testCase, fetchedCase, outputDirName>>

\* The container file of the directory the renderer is run on.
ContainerIn(dir) == CHOOSE f \in dir : f.kind = "container"

\* execFileSync('allure', ['generate', outputDir, '-o', reportDir, '--clean'])
\* exits 0: allure-report is rebuilt, its history tagged by this invocation
RenderOk ==
    /\ pc = "render"
    /\ rendered' = Append(rendered, CurrentReport.id)
    /\ reportHistory' = <<ContainerIn(outputDir).uuid>>
    /\ i' = i + 1
    /\ pc' = "loop"
    /\ UNCHANGED <<mode, pageVars, testReports, testCaseCache, resultIndex, testResultUuids,
                   pendingCase, outputDir, uuids, clears, fetchCount, lookupCount, runs,
                   testReportId, failure, argv, exitCode, input, translated, testCase, fetchedCase, outputDirName>>

\* execFileSync throws on a non-zero exit
RenderFails ==
    /\ pc = "render"
    /\ Fails("renderer")
    /\ UNCHANGED <<mode, pageVars, testReports, i, testCaseCache, resultIndex, testResultUuids,
                   pendingCase, outputDir, reportHistory, uuids, rendered, clears,
                   fetchCount, lookupCount, runs, testReportId, testCase, fetchedCase, outputDirName>>

\* The conversion returned to its caller: its locals are gone; the instance
\* (its cache), the directories and the uuids handed out remain.
Finish ==
    /\ pc = "done"
    /\ mode \in {"batch", "single"}
    /\ pc' = "idle"
    /\ mode' = "none"
    /\ script' = << >>
    /\ requests' = 0
    /\ reqKey' = NoCursor
    /\ page' = EmptyPage
    /\ allReports' = << >>
    /\ seenIds' = {}
    /\ hasNextPage' = TRUE
    /\ keyCreatedAt' = NoCursor
    /\ maxReports' = << >>
    /\ maxArg' = << >>
    /\ result' = << >>
    /\ warning' = "none"
    /\ testReports' = << >>
    /\ i' = 1
    /\ resultIndex' = 1
    /\ testResultUuids' = << >>
    /\ rendered' = << >>
    /\ clears' = 0
    /\ testReportId' = << >>
    /\ testCase' = << >>
    /\ outputDirName' = << >>
    /\ UNCHANGED <<testCaseCache, pendingCase, outputDir, reportHistory, uuids,
                   fetchCount, lookupCount, runs, failure, argv, exitCode, input, translated,
                   fetchedCase>>

\* ------------------------------------------------------- specification
\* The state after construction; `in`: the arguments a translation is about
\* to be called with, if any
InitWith(in) ==
    /\ pc = "idle"
    /\ mode = "none"
    /\ script = << >>
    /\ requests = 0
    /\ reqKey = NoCursor
    /\ page = EmptyPage
    /\ allReports = << >>
    /\ seenIds = {}
    /\ hasNextPage = TRUE
    /\ keyCreatedAt = NoCursor
    /\ maxReports = << >>
    /\ maxArg = << >>
    /\ result = << >>
    /\ warning = "none"
    /\ testCaseCache = EmptyCache
    /\ testReports = << >>
    /\ i = 1
    /\ resultIndex = 1
    /\ testResultUuids = << >>
    /\ pendingCase = << >>
    /\ outputDir = {}
    /\ reportHistory = << >>
    /\ uuids = 0
    /\ rendered = << >>
    /\ clears = 0
    /\ fetchCount = NoCounts
    /\ lookupCount = NoCounts
    /\ runs = 0
    /\ testReportId = << >>
    /\ failure = "none"
    /\ testCase = << >>
    /\ fetchedCase = << >>
    /\ outputDirName = << >>
    /\ argv = << >>
    /\ exitCode = << >>
    /\ input = in
    /\ translated = << >>

Init == InitWith(<< >>)

Next ==
    \/ CallFetchAll
    \/ FetchPageOk
    \/ FetchPageFails
    \/ ProcessPage

Spec == Init /\ [][Next]_vars

\* Every page request is answered (the claim's premise) and the resumption
\* after an answered await runs (the event loop).
FairSpec == Spec /\ WF_vars(FetchPageOk \/ FetchPageFails) /\ WF_vars(ProcessPage)

\* Conversions (batch or single report) run one after another on the instance.
NextRun ==
    \/ CallBatch
    \/ CallSingle
    \/ TargetOk
    \/ TargetFails
    \/ ReportOk
    \/ ReportFails
    \/ FetchPageOk
    \/ FetchPageFails
    \/ ProcessPage
    \/ MakeDirs
    \/ LoopReports
    \/ LookupHit
    \/ LookupMiss
    \/ CaseOk
    \/ CaseNotOk
    \/ CaseThrows
    \/ ConvertResult
    \/ WriteResult
    \/ WriteContainer
    \/ CopyHistory
    \/ RenderOk
    \/ RenderFails
    \/ Finish

SpecRun == Init /\ [][NextRun]_vars

\* -------------------------------------------------------------------- main
MaxArgs == 7         \* longest command line (arguments after the script name)

\* The arguments tried: the flags main reads (the long forms are the same
\* switch cases), a plain word, a number and the empty string.
Flags == {"-k", "-t", "-r", "-o", "-b", "-m", "-e", "-d", "-h"}
Values == {"x", "1", ""}
Tokens == Flags \cup Values

\* The lists of at most n tokens that use none of the flags `used` and no
\* flag twice (a flag may still stand where another flag's value is
\* expected, or have no value after it).
RECURSIVE Tails(_, _)
Tails(n, used) ==
    IF n <= 0 THEN {<< >>}
    ELSE LET shorter == Tails(n - 1, used)
         IN  shorter \cup
             UNION {{Append(args, t) : t \in Tokens \ (used \cup (Flags \cap Range(args)))} :
                       args \in {a \in shorter : Len(a) = n - 1}}

\* -k <value> -t <value>, each value a word or the empty string
RequiredGiven == {<<"-k", v, "-t", w>> : v, w \in {"x", ""}}

\* The command lines tried, of at most n arguments: any list of at most
\* n - 4 tokens, alone or after the two required options.
ArgLists(n) ==
    Tails(n - 4, {}) \cup
    {given \o rest : given \in RequiredGiven, rest \in Tails(n - 4, {"-k", "-t"})}

\* args[++i]: undefined (<< >>) past the end
ArgAt(args, k) == IF k <= Len(args) THEN <<args[k]>> ELSE << >>

\* parseInt(s, 10): of the tokens tried only "1" starts with a digit; every
\* other one, and undefined, gives NaN (<< >>)
ParseInt(s) == IF s = <<"1">> THEN <<1>> ELSE << >>

\* let apiKey = '', testTargetId = '', testReportId = '',
\* outputDir = './allure-results', batchMode = false, maxReports, environmentId,
\* debug = false;  help: the loop reached --help (and the process exited there)
NoOptions == [apiKey |-> <<"">>, testTargetId |-> <<"">>, testReportId |-> <<"">>,
              outputDir |-> <<"./allure-results">>, batchMode |-> FALSE,
              maxReports |-> << >>, environmentId |-> << >>, debug |-> FALSE,
              help |-> FALSE]

\* for (let i = 0; i < args.length; i++) switch (args[i]) ...
RECURSIVE ParseFrom(_, _, _)
ParseFrom(args, k, o) ==
    IF k > Len(args) THEN o
    ELSE CASE args[k] = "-k" -> ParseFrom(args, k + 2, [o EXCEPT !.apiKey = ArgAt(args, k + 1)])
           [] args[k] = "-t" ->
                  ParseFrom(args, k + 2, [o EXCEPT !.testTargetId = ArgAt(args, k + 1)])
           [] args[k] = "-r" ->
                  ParseFrom(args, k + 2, [o EXCEPT !.testReportId = ArgAt(args, k + 1)])
           [] args[k] = "-o" ->
                  ParseFrom(args, k + 2, [o EXCEPT !.outputDir = ArgAt(args, k + 1)])
           [] args[k] = "-b" -> ParseFrom(args, k + 1, [o EXCEPT !.batchMode = TRUE])
           [] args[k] = "-m" ->
                  ParseFrom(args, k + 2,
                            [o EXCEPT !.maxReports = ParseInt(ArgAt(args, k + 1))])
           [] args[k] = "-e" ->
                  ParseFrom(args, k + 2, [o EXCEPT !.environmentId = ArgAt(args, k + 1)])
           [] args[k] = "-d" -> ParseFrom(args, k + 1, [o EXCEPT !.debug = TRUE])
           [] args[k] = "-h" -> [o EXCEPT !.help = TRUE]
           [] OTHER -> ParseFrom(args, k + 1, o)

Parse(args) == ParseFrom(args, 1, NoOptions)

\* !value : undefined and '' are falsy
Falsy(value) == value = << >> \/ value = <<"">>

\* if (!apiKey || !testTargetId)
MissingRequired(o) == Falsy(o.apiKey) \/ Falsy(o.testTargetId)

\* (mutant) --batch with a report id is let through
ConflictingAllowed(o) == FALSE

\* if (batchMode && testReportId)
Conflicting(o) == o.batchMode /\ ~Falsy(o.testReportId)

\* if (!batchMode && !testReportId)
NoMode(o) == ~o.batchMode /\ Falsy(o.testReportId)

Rejected(o) == MissingRequired(o) \/ Conflicting(o) \/ NoMode(o)

\* process.exit(code), or main returning (code 0)
Exit(code) ==
    /\ pc' = "exited"
    /\ exitCode' = <<code>>
    /\ UNCHANGED <<mode, pageVars, testReports, i, testCaseCache, resultIndex,
                   testResultUuids, pendingCase, outputDir, reportHistory, uuids, rendered,
                   clears, fetchCount, lookupCount, runs, testReportId, failure, argv,
                   input, translated, testCase, fetchedCase, outputDirName>>

\* The process starts: main reads process.argv.slice(2)
MainEnter ==
    /\ pc = "idle" /\ argv = << >> /\ exitCode = << >> /\ runs = 0
    /\ \E args \in ArgLists(MaxArgs) : argv' = <<args>>
    /\ pc' = "main"
    /\ UNCHANGED <<mode, pageVars, testReports, i, testCaseCache, resultIndex,
                   testResultUuids, pendingCase, outputDir, reportHistory, uuids, rendered,
                   clears, fetchCount, lookupCount, runs, testReportId, failure, exitCode,
                   input, translated, testCase, fetchedCase, outputDirName>>

\* case '--help': usage printed, process.exit(0)
MainHelp ==
    /\ pc = "main"
    /\ Parse(argv[1]).help
    /\ Exit(0)

\* One of the three validations fails: process.exit(1)
MainRejects ==
    /\ pc = "main"
    /\ ~Parse(argv[1]).help
    /\ Rejected(Parse(argv[1]))
    /\ Exit(1)

\* Validation passed with --batch: new converter, convertMultipleReports
\* with the parsed outputDir and maxReports.
\* main does not read args again; the model keeps them no longer.
MainBatch ==
    /\ pc = "main"
    /\ ~Parse(argv[1]).help
    /\ ~Rejected(Parse(argv[1]))
    /\ Parse(argv[1]).batchMode
    /\ StartBatch({Parse(argv[1]).maxReports}, {Parse(argv[1]).outputDir})
    /\ argv' = << >>

\* Validation passed with a report id: new converter, convertAndWrite with
\* the parsed outputDir
MainSingle ==
    /\ pc = "main"
    /\ ~Parse(argv[1]).help
    /\ ~Rejected(Parse(argv[1]))
    /\ ~Parse(argv[1]).batchMode
    /\ StartSingle({Parse(argv[1]).outputDir})
    /\ argv' = << >>

\* catch (error) { console.error(...); process.exit(1) }
MainCatch ==
    /\ pc = "failed"
    /\ Exit(1)

\* The conversion returned: main returns, the process ends with status 0
MainReturns ==
    /\ pc = "done"
    /\ mode \in {"batch", "single"}
    /\ Exit(0)

\* One process: main, and the one conversion it runs.
NextMain ==
    \/ MainEnter
    \/ MainHelp
    \/ MainRejects
    \/ MainBatch
    \/ MainSingle
    \/ MainCatch
    \/ MainReturns
    \/ TargetOk
    \/ TargetFails
    \/ ReportOk
    \/ ReportFails
    \/ FetchPageOk
    \/ FetchPageFails
    \/ ProcessPage
    \/ MakeDirs
    \/ LoopReports
    \/ LookupHit
    \/ LookupMiss
    \/ CaseOk
    \/ CaseNotOk
    \/ CaseThrows
    \/ ConvertResult
    \/ WriteResult
    \/ WriteContainer
    \/ CopyHistory
    \/ RenderOk
    \/ RenderFails

SpecMain == Init /\ [][NextMain]_vars

\* ------------------------------------------------------- convertTestResult
\* A JavaScript number is written <<n>>, NaN is << >>.  An optional field is
\* a record field that may be missing: Opt gives << >> (undefined) or <<value>>.
MaxSteps == 2        \* longest list of steps of a source result

Opt(rec, field) == IF field \in DOMAIN rec THEN <<rec[field]>> ELSE << >>

\* `value ? ... : ...` / `a || b` on an optional string: undefined and '' are falsy
TruthyString(o) == o # << >> /\ o[1] # ""

\* a + d, a possibly NaN
Plus(a, d) == IF a = << >> THEN << >> ELSE <<a[1] + d>>

\* The timestamp strings tried: two ISO dates, and one that is no date.
\* new Date(s).getTime() is NaN for a string that is no date.
ParseDate(s) ==
    CASE s = "1970-01-01T00:00:01.000Z" -> <<1000>>
      [] s = "1970-01-01T00:00:05.000Z" -> <<5000>>
      [] OTHER -> << >>

\* (mutant) BROKEN is not among the cases
ConvertStatusNoBroken(status) ==
    CASE status = "PASSED" -> "passed"
      [] status = "FAILED" -> "failed"
      [] status = "SKIPPED" -> "skipped"
      [] OTHER -> "unknown"

\* convertStatus
ConvertStatus(status) ==
    CASE status = "PASSED" -> "passed"
      [] status = "FAILED" -> "failed"
      [] status = "BROKEN" -> "broken"
      [] status = "SKIPPED" -> "skipped"
      [] OTHER -> "unknown"

\* crypto.createHash('md5').update(`${testTargetId}:${testCaseId}`).digest('hex'):
\* the digests of the keys tried; another key's digest is written md5(key)
GenerateHistoryId(testTargetId, testCaseId) ==
    LET key == testTargetId \o ":" \o testCaseId
    IN  CASE key = "t1:c1" -> "80def432f13804a4d413322f14715f52"
          [] key = "t1:c2" -> "58e4565bfdbf34c0c94a76ad58a20f3a"
          [] key = "t2:c1" -> "68b86f8bbd73e2761d893fdb69747697"
          [] key = "t2:c2" -> "8564035a54a246013979b324aec65460"
          [] OTHER -> "md5(" \o key \o ")"

\* step.duration || 0
DurationOrZero(step) ==
    IF Opt(step, "duration") = << >> THEN 0 ELSE step.duration

\* convertStep
ConvertStep(step, startTime) ==
    [name |-> step.name,
     status |-> ConvertStatus(step.status),
     stage |-> "finished",
     start |-> startTime,
     stop |-> Plus(startTime, DurationOrZero(step)),
     statusDetails |-> IF TruthyString(Opt(step, "error"))
                       THEN <<[message |-> step.error]>> ELSE << >>]

\* (mutant) the running time is not advanced
AdvanceNot(currentTime, step) == currentTime

\* currentTime += (step.duration || 0)
Advance(currentTime, step) == Plus(currentTime, DurationOrZero(step))

\* testResult.steps.forEach(step => { steps.push(convertStep(step, currentTime)); ... })
RECURSIVE ConvertSteps(_, _)
ConvertSteps(steps, currentTime) ==
    IF steps = << >> THEN << >>
    ELSE <<ConvertStep(Head(steps), currentTime)>>
             \o ConvertSteps(Tail(steps), Advance(currentTime, Head(steps)))

\* (mutant) the history identifier is derived from the report's target id
HistoryTargetOfReport(testResult, testReport) == testReport.testTargetId

\* generateHistoryId(testResult.testTargetId, ...): the result's own target id
HistoryTarget(testResult, testReport) == testResult.testTargetId

\* testCase.description || testCase.name || testResult.testCaseId
TestName(testResult, case) ==
    IF TruthyString(Opt(case, "description")) THEN case.description
    ELSE IF TruthyString(Opt(case, "name")) THEN case.name
    ELSE testResult.testCaseId

Links(testResult, testReport, case) ==
    <<[type |-> "link", name |-> "View in Octomind",
       url |-> "https://app.octomind.dev/testtargets/" \o testResult.testTargetId
                   \o "/testreports/" \o testReport.id]>>
    \o (IF TruthyString(Opt(testResult, "traceUrl"))
        THEN <<[type |-> "link", name |-> "Playwright Trace", url |-> testResult.traceUrl]>>
        ELSE << >>)
    \o (IF TruthyString(Opt(case, "externalId"))
        THEN <<[type |-> "tms", name |-> case.externalId,
                url |-> "#" \o case.externalId]>>
        ELSE << >>)

RECURSIVE TagLabels(_)
TagLabels(tags) ==
    IF tags = << >> THEN << >>
    ELSE (IF Head(tags).type = "TEXT"
          THEN <<[name |-> "tag", value |-> Head(tags).value]>> ELSE << >>)
         \o TagLabels(Tail(tags))

Labels(testResult, testReport, case, testTarget) ==
    <<[name |-> "host", value |-> "octomind"],
      [name |-> "language", value |-> "typescript"],
      [name |-> "framework", value |-> "playwright"],
      [name |-> "testClass", value |-> testTarget.app],
      [name |-> "testMethod", value |-> testResult.testCaseId],
      [name |-> "suite", value |-> TestName(testResult, case)],
      [name |-> "package", value |-> testTarget.app]>>
    \o (IF TruthyString(Opt(testReport, "breakpoint"))
        THEN <<[name |-> "breakpoint", value |-> testReport.breakpoint]>> ELSE << >>)
    \o (IF TruthyString(Opt(testReport, "browserType"))
        THEN <<[name |-> "browser", value |-> testReport.browserType]>> ELSE << >>)
    \o (IF Opt(case, "tags") # << >> THEN TagLabels(case.tags) ELSE << >>)

\* testResult.createdAt ? new Date(testResult.createdAt).getTime() : Date.now()
CreatedAt(testResult, now) ==
    IF TruthyString(Opt(testResult, "createdAt")) THEN ParseDate(testResult.createdAt)
    ELSE <<now>>

\* testResult.updatedAt ? new Date(testResult.updatedAt).getTime() : createdAt
UpdatedAt(testResult, now) ==
    IF TruthyString(Opt(testResult, "updatedAt")) THEN ParseDate(testResult.updatedAt)
    ELSE CreatedAt(testResult, now)

\* convertTestResult; uuid is what randomUUID() returns, now what Date.now()
\* returns if it is called
ConvertTestResult(testResult, testReport, case, testTarget, uuid, now) ==
    [uuid |-> uuid,
     historyId |-> GenerateHistoryId(HistoryTarget(testResult, testReport),
                                     testResult.testCaseId),
     testCaseId |-> testResult.testCaseId,
     fullName |-> testTarget.app \o "." \o TestName(testResult, case),
     name |-> TestName(testResult, case),
     description |-> Opt(case, "description"),
     links |-> Links(testResult, testReport, case),
     labels |-> Labels(testResult, testReport, case, testTarget),
     status |-> ConvertStatus(testResult.status),
     statusDetails |->
         IF TruthyString(Opt(testResult, "error"))
                \/ TruthyString(Opt(testResult, "stackTrace"))
         THEN <<[message |-> Opt(testResult, "error"),
                 trace |-> Opt(testResult, "stackTrace")]>>
         ELSE << >>,
     stage |-> "finished",
     start |-> CreatedAt(testResult, now),
     stop |-> UpdatedAt(testResult, now),
     steps |-> IF Opt(testResult, "steps") # << >>
               THEN ConvertSteps(testResult.steps, CreatedAt(testResult, now))
               ELSE << >>]

\* ------------------------------------------------- the translations tried
StatusTokens ==
    {"PASSED", "FAILED", "BROKEN", "SKIPPED", "RUNNING", "passed", "", "FLAKY"}

\* Date.now() at the two translations
Clock == {9000, 9001}

\* Step durations: none, zero, positive, negative
StepsOfDuration ==
    {[name |-> "step", status |-> "PASSED"]}
    \cup {[name |-> "step", status |-> "PASSED", duration |-> d] : d \in {0, 50, 100, -30}}

StepLists == UNION {[1..n -> StepsOfDuration] : n \in 0..MaxSteps}

\* createdAt or updatedAt: missing, or one of the strings
TimeFields(field, strings) == {<< >>} \cup {field :> s : s \in strings}

\* f @@ g where << >> stands for no field at all
With(rec, more) == IF more = << >> THEN rec ELSE rec @@ more

ReportInputs ==
    {[id |-> "r1", testTargetId |-> "t1", browserType |-> "chromium"],
     [id |-> "r2", testTargetId |-> "t2", breakpoint |-> "DESKTOP"]}

CaseInputs(c) ==
    {SyntheticCase(c),
     [id |-> c, name |-> "name of " \o c, description |-> "Login flow",
      tags |-> <<[type |-> "TEXT", value |-> "smoke"], [type |-> "ENV", value |-> "prod"]>>,
      externalId |-> "EXT-1"]}

TargetInputs == {[id |-> "t1", app |-> "MyApp"], [id |-> "t2", app |-> "Shop"]}

Arguments(testResult, testReport, case, testTarget, now) ==
    [testResult |-> testResult, testReport |-> testReport, testCase |-> case,
     testTarget |-> testTarget, now |-> now]

PlainResult == ResultOf("t1", "c1") @@ [status |-> "PASSED"]

\* results that differ in their steps and timestamps
TimedInputs ==
    {Arguments(With(With(With(PlainResult, created), updated), steps),
               [id |-> "r1", testTargetId |-> "t1"], SyntheticCase("c1"),
               [id |-> "t1", app |-> "MyApp"], 9000) :
        created \in TimeFields("createdAt",
                               {"", "1970-01-01T00:00:01.000Z",
                                "1970-01-01T00:00:05.000Z", "not-a-date"}),
        updated \in TimeFields("updatedAt", {"1970-01-01T00:00:05.000Z", "not-a-date"}),
        steps \in {<< >>} \cup {"steps" :> l : l \in StepLists}}

\* results that differ in their status and in the status of their one step
StatusInputs ==
    {Arguments(ResultOf("t1", "c1")
                   @@ [status |-> s, steps |-> <<[name |-> "step", status |-> t]>>],
               [id |-> "r1", testTargetId |-> "t1"], SyntheticCase("c1"),
               [id |-> "t1", app |-> "MyApp"], 9000) :
        s \in StatusTokens, t \in StatusTokens}

\* results that differ in their identifiers, report, Case, Target and time
IdInputs ==
    UNION {{Arguments(ResultOf(p[1], p[2])
                          @@ [status |-> "FAILED", error |-> "boom",
                              traceUrl |-> "https://trace"],
                      report, case, target, now) :
               report \in ReportInputs, case \in CaseInputs(p[2]),
               target \in TargetInputs, now \in Clock} :
           p \in Pairs}

ConvertInputs == TimedInputs \cup StatusInputs \cup IdInputs

\* convertTestResult is called with the arguments in `input`; a second
\* call follows with arguments of IdInputs.
Translate ==
    /\ pc = "idle"
    /\ input # << >>
    /\ translated' =
           Append(translated,
                  [args |-> input[1],
                   allure |-> ConvertTestResult(input[1].testResult, input[1].testReport,
                                                input[1].testCase, input[1].testTarget,
                                                uuids + 1, input[1].now)])
    /\ uuids' = uuids + 1
    /\ input' \in IF translated = << >> THEN {<<a>> : a \in IdInputs} ELSE {<< >>}
    /\ UNCHANGED <<pc, mode, pageVars, testReports, i, testCaseCache, resultIndex,
                   testResultUuids, pendingCase, outputDir, reportHistory, rendered,
                   clears, fetchCount, lookupCount, runs, testReportId, failure, argv,
                   exitCode, testCase, fetchedCase, outputDirName>>

NextConvert == Translate

InitConvert == \E a \in ConvertInputs : InitWith(<<a>>)

SpecConvert == InitConvert /\ [][NextConvert]_vars

\* --------------------------------------------- fetchTestCase, called itself
MaxLookups == 2      \* calls of fetchTestCase per (target id, case id) pair

\* The pairs fetchTestCase is called with here
DirectPairs == ColonPairs \cup {<<"t1", "c1">>}

\* fetchTestCase(testTargetId, testCaseId): the key is in the cache, the
\* stored Case is returned without a request
FetchCaseHit ==
    /\ pc = "idle"
    /\ \E p \in DirectPairs :
           /\ lookupCount[p] < MaxLookups
           /\ CacheHas(testCaseCache, CacheKey(p[1], p[2]))
           /\ lookupCount' = Count(lookupCount, p)
           /\ fetchedCase' = <<CacheGet(testCaseCache, CacheKey(p[1], p[2]))>>
    /\ UNCHANGED <<pc, mode, pageVars, testReports, i, testCaseCache, resultIndex,
                   testResultUuids, pendingCase, outputDir, reportHistory, uuids, rendered,
                   clears, fetchCount, runs, testReportId, failure, argv, exitCode, input,
                   translated, testCase, outputDirName>>

\* fetchTestCase(testTargetId, testCaseId): the key is not in the cache, the
\* Case is requested
FetchCaseMiss ==
    /\ pc = "idle"
    /\ \E p \in DirectPairs :
           /\ lookupCount[p] < MaxLookups
           /\ ~CacheHas(testCaseCache, CacheKey(p[1], p[2]))
           /\ lookupCount' = Count(lookupCount, p)
           /\ fetchCount' = Count(fetchCount, p)
           /\ pendingCase' = p
    /\ pc' = "fetchCase"
    /\ UNCHANGED <<mode, pageVars, testReports, i, testCaseCache, resultIndex,
                   testResultUuids, outputDir, reportHistory, uuids, rendered, clears, runs,
                   testReportId, failure, argv, exitCode, input, translated, testCase, fetchedCase, outputDirName>>

\* The request is answered: `case` is stored under the key and returned
FetchCaseReturns(case) ==
    /\ testCaseCache' =
           CacheSet(testCaseCache, CacheKey(pendingCase[1], pendingCase[2]), case)
    /\ fetchedCase' = <<case>>
    /\ pendingCase' = << >>
    /\ pc' = "idle"
    /\ UNCHANGED <<mode, pageVars, testReports, i, resultIndex, testResultUuids, outputDir,
                   reportHistory, uuids, rendered, clears, fetchCount, lookupCount, runs,
                   testReportId, failure, argv, exitCode, input, translated, testCase,
                   outputDirName>>

\* response.ok: the body is the Case
FetchCaseOk ==
    /\ pc = "fetchCase"
    /\ FetchCaseReturns(ServerCase(pendingCase[2]))

\* !response.ok: minimal info
FetchCaseNotOk ==
    /\ pc = "fetchCase"
    /\ FetchCaseReturns(SyntheticCase(pendingCase[2]))

\* fetch() rejects or response.json() throws: the caller gets the error
FetchCaseThrows ==
    /\ pc = "fetchCase"
    /\ \E why \in {"case: network error", "case: malformed body"} : Fails(why)
    /\ UNCHANGED <<mode, pageVars, testReports, i, testCaseCache, resultIndex,
                   testResultUuids, pendingCase, outputDir, reportHistory, uuids, rendered,
                   clears, fetchCount, lookupCount, runs, testReportId, testCase, fetchedCase, outputDirName>>

\* fetchTestCase called again and again on one converter, with any pair.
NextCache ==
    \/ FetchCaseHit
    \/ FetchCaseMiss
    \/ FetchCaseOk
    \/ FetchCaseNotOk
    \/ FetchCaseThrows

SpecCache == Init /\ [][NextCache]_vars

\* ------------------------------------------------------------- claims
Terminated == pc \in {"done", "failed"}

Returned == pc = "done" /\ mode = "fetchAll"

\* The pages of a sequence of pages, concatenated.
RECURSIVE Concat(_)
Concat(ps) == IF ps = << >> THEN << >> ELSE ps[1].data \o Concat(Tail(ps))

NonOverlapping(ps) ==
    \A a, b \in 1..Len(ps) : a # b => Range(ps[a].data) \cap Range(ps[b].data) = {}

\* C1 (as claimed): whatever pages the server gives, the sequence returned by
\* fetchAllTestReports contains no report id twice.  Violated: ids repeated
\* inside one page are all new with respect to seenIds and are all kept.
C1_NoDuplicateIds == Returned => NoDup(result)

\* C2: once fetchAllTestReports has requested a page, the call eventually
\* ends (returns, or throws on a non-success answer), whatever the server
\* answers, with or without maxReports.
C2_Terminates == (pc = "awaitPage") ~> Terminated

\* C2 witness: a call without maxReports ended after its second request although
\* the server still announced a next page.
C2_Witness ==
    /\ Returned /\ maxArg = << >> /\ script = << >>
    /\ requests >= 2 /\ hasNextPage

\* The scripted server of C3: pages pairwise non-overlapping, no maxReports.
C3_Premise == Returned /\ script # << >> /\ maxArg = << >> /\ NonOverlapping(script)

\* C3 (as claimed): served a finite sequence of pairwise non-overlapping pages
\* (each but the last with hasNextPage and a cursor) and given no maxReports,
\* fetchAllTestReports returns the concatenation of all pages.  Violated: an
\* empty page that is not the last stops the loop.
C3_Original == C3_Premise => result = Concat(script)

\* C3 (amended): the same when, in addition, every page but the last is
\* non-empty.
C3_Concatenation ==
    (C3_Premise /\ \A k \in 1..(Len(script) - 1) : script[k].data # << >>)
        => result = Concat(script)

\* C3 witness: two non-empty, non-overlapping pages were returned in order.
C3_Witness ==
    /\ C3_Premise /\ Len(script) >= 2
    /\ \A k \in 1..Len(script) : script[k].data # << >>
    /\ result = Concat(script)

\* C4 (as claimed): with maxReports = m supplied (a count, m >= 0), at most
\* m reports are returned, and exactly the first m accumulated when at least
\* m were accumulated.  Violated for m = 0, which the code reads as no limit.
C4_AtMostMax ==
    (Returned /\ maxArg # << >> /\ maxArg[1] >= 0) =>
        /\ Len(result) <= maxArg[1]
        /\ Len(allReports) >= maxArg[1] => result = SubSeq(allReports, 1, maxArg[1])

\* C5: a step that processes a non-empty page holding only ids already seen
\* issues no further request and returns, without an error, the reports
\* accumulated before it, unchanged.
C5_DuplicatePageStops ==
    [][(pc = "gotPage" /\ mode = "fetchAll" /\ page.data # << >>
            /\ Range(page.data) \subseteq seenIds)
        => (pc' = "done" /\ result' = allReports /\ allReports' = allReports
            /\ requests' = requests)]_vars

\* C5 witness: a call returned its first page's reports after a second page
\* that repeated only ids of the first.
C5_Witness ==
    /\ Returned /\ requests = 2 /\ warning = "duplicates"
    /\ result = allReports /\ result # << >>

\* The pair fetchTestCase was last called with, while a report's results are
\* being converted.
LastPair == <<CurrentReport.testTargetId, CurrentReport.testResults[resultIndex - 1].testCaseId>>

Converting == pc = "convert" /\ resultIndex > 1

\* C6: between two cache clears, the fetchTestCase lookups of one (target,
\* case) pair trigger exactly one remote fetch, whether it was answered with
\* success or with a non-success status; the pair's entry is then stored, and
\* a lookup that returned has returned the stored Case.
C6_OneFetchPerPair ==
    /\ \A p \in Pairs : lookupCount[p] >= 1 => fetchCount[p] = 1
    /\ \A p \in Pairs : fetchCount[p] <= lookupCount[p]
    /\ \A p \in Pairs :
           (lookupCount[p] >= 1 /\ pendingCase # p) => testCaseCache[p[1] \o ":" \o p[2]] # << >>
    /\ Converting => testCase = testCaseCache[LastPair[1] \o ":" \o LastPair[2]]
    /\ pc = "caseReturned" =>
           (/\ fetchedCase # << >>
            /\ fetchedCase = testCaseCache[CurrentPair[1] \o ":" \o CurrentPair[2]])

\* C6 witness: a pair whose fetch was answered with a non-success status was
\* looked up again and served from the cache, with one remote fetch in all.
C6_Witness ==
    /\ Converting
    /\ lookupCount[LastPair] >= 2 /\ fetchCount[LastPair] = 1
    /\ testCase = <<[id |-> LastPair[2], name |-> LastPair[2], tags |-> << >>]>>

\* C7 (as claimed): fetchTestCase never propagates an error, whatever makes
\* the remote Case fetch fail.  Violated: only a non-success status is
\* handled; a rejected fetch() or a body that is not JSON throws.
C7_NeverPropagates ==
    failure \notin {"case: network error", "case: malformed body"}

\* C8 (as claimed, the part that fails): the clear happens exactly once per
\* batch run, and never in single-report mode.  Violated: a batch run whose
\* Target fetch fails ends before the clear.
C8_Original ==
    /\ (mode = "batch" /\ pc \in {"done", "failed"}) => clears = 1
    /\ mode = "single" => clears = 0

\* C8 (amended): a stored entry is never removed or replaced by a step other
\* than the clear; the clear happens exactly once in every batch run whose
\* Target fetch succeeds, after that fetch and before pagination and the
\* first case lookup, and never in single-report mode.
C8_CacheStable ==
    /\ [][(\A key \in Keys :
              testCaseCache[key] # << >> => testCaseCache'[key] = testCaseCache[key])
          \/ (mode = "batch" /\ pc = "awaitTarget" /\ pc' \in {"awaitPage", "gotReports"}
              /\ clears' = 1 /\ \A key \in Keys : testCaseCache'[key] = << >>)]_vars
    /\ [](mode = "single" => clears = 0)
    /\ [](mode = "batch" =>
            clears = IF pc = "awaitTarget" \/ failure = "target" THEN 0 ELSE 1)
    /\ []((mode = "batch" /\ clears = 0) =>
            (requests = 0 /\ \A p \in Pairs : lookupCount[p] = 0 \/ runs > 1))
    /\ []((mode = "batch" /\ pc = "awaitPage" /\ requests = 1) =>
            \A p \in Pairs : lookupCount[p] = 0)

\* C8 witness: the second conversion on the instance is a batch run; its
\* clear emptied a cache the first conversion had filled, and the run has
\* stored an entry since.
C8_Witness ==
    /\ mode = "batch" /\ runs = 2 /\ clears = 1 /\ Converting
    /\ testCaseCache[LastPair[1] \o ":" \o LastPair[2]] # << >>
    /\ Cardinality({key \in Keys : testCaseCache[key] # << >>}) = 1
    /\ uuids >= 4

\* C9: in batch mode, when the renderer is invoked the working directory
\* holds exactly the result files of the report being processed (one per
\* result, those of testResultUuids), its one container file, and the copied
\* history if there is one; no file of another report or of an earlier run.
C9_OneReportPerRender ==
    (mode = "batch" /\ pc = "render") =>
        /\ \A f \in outputDir : f.kind \in {"result", "container", "history"}
        /\ {f.uuid : f \in {g \in outputDir : g.kind = "result"}} = Range(testResultUuids)
        /\ Len(testResultUuids) = Len(CurrentReport.testResults)
        /\ Cardinality({g \in outputDir : g.kind = "result"}) = Len(testResultUuids)
        /\ {f.uuid : f \in {g \in outputDir : g.kind = "container"}} = {uuids}
        /\ \A f \in outputDir : f.kind \in {"result", "container"} => f.report = testReports[i]
        /\ {f.uuid : f \in {g \in outputDir : g.kind = "history"}} = Range(reportHistory)

\* C9 witness: the renderer is about to run for the second report of a batch
\* run that followed another conversion; the directory holds that report's
\* result, its container and the history of the first invocation.
C9_Witness ==
    /\ mode = "batch" /\ pc = "render" /\ i = 2 /\ runs = 2
    /\ testResultUuids # << >>
    /\ reportHistory # << >>
    /\ Cardinality(outputDir) = Len(testResultUuids) + 2

\* The ids of the first n reports of the run.
FirstReports(n) == [j \in 1..n |-> testReports[j]]

\* C10: in a batch run the renderer has been invoked, in pagination order,
\* once for each report before the one being processed, whenever that one is
\* wiped, looked up, written or rendered; a run that ends without failure has
\* invoked it exactly once per report returned by pagination, in order; the
\* one Case request in flight belongs to the step that awaits it.
C10_OneRenderPerReport ==
    mode = "batch" =>
        /\ pc \in {"gotReports", "loop", "convert", "awaitCase", "caseReturned", "converted",
                   "history", "render"} =>
              (rendered = FirstReports(i - 1) /\ testReports = result)
        /\ pc \in {"convert", "awaitCase", "caseReturned", "converted", "history", "render"} =>
              i <= Len(testReports)
        /\ pc = "done" => (rendered = testReports /\ testReports = result)
        /\ pc \in {"awaitTarget", "awaitPage", "gotPage"} => rendered = << >>
        /\ pendingCase # << >> => pc \in {"awaitCase", "failed"}

\* C10 witness: a batch run ended without failure after rendering two
\* reports, in the order pagination returned them (report 2 before report 1).
C10_Witness ==
    /\ mode = "batch" /\ pc = "done" /\ failure = "none"
    /\ rendered = testReports /\ rendered = <<2, 1>>

HistoryFiles(dir) == {f \in dir : f.kind = "history"}

\* C11: in batch mode the history directory is copied into the working
\* directory only once that directory has been wiped and the report's result
\* files and container file are written, and before the renderer is invoked;
\* the renderer leaves the history of its invocation behind, and when it is
\* invoked for a report after the first the working directory holds the
\* history left by the invocation for the report before (whose container had
\* the uuid handed out just before this report's first).
C11_HistoryCarriedForward ==
    /\ [][(HistoryFiles(outputDir') # HistoryFiles(outputDir) /\ outputDir' # {}) =>
            /\ mode = "batch" /\ pc = "history" /\ pc' = "render"
            /\ HistoryFiles(outputDir) = {}
            /\ \A f \in outputDir : f.report = testReports[i]
            /\ \E f \in outputDir : f.kind = "container" /\ f.uuid = uuids
            /\ {f.uuid : f \in {g \in outputDir : g.kind = "result"}} = Range(testResultUuids)
            /\ Len(testResultUuids) = Len(CurrentReport.testResults)
            /\ outputDir \subseteq outputDir'
            /\ rendered' = rendered]_vars
    /\ [][(pc = "render" /\ pc' = "loop") =>
            reportHistory' = <<uuids>>]_vars
    /\ []((mode = "batch" /\ pc = "render" /\ i >= 2) =>
            {f.uuid : f \in HistoryFiles(outputDir)} = {uuids - Len(testResultUuids) - 1})

\* C11 witness: the renderer is about to run for the second report of the
\* first conversion on the instance, with the history of the invocation for
\* the first report in the working directory.
C11_Witness ==
    /\ mode = "batch" /\ pc = "render" /\ i = 2 /\ runs = 1
    /\ Len(rendered) = 1
    /\ \E f \in outputDir : f.kind = "history" /\ f.uuid = uuids - Len(testResultUuids) - 1

\* The failures the claim calls fatal.
FatalFailures == {"target", "report", "reports page", "renderer"}

\* C12: once a Target, Report or reports-page fetch was answered with a
\* non-success status, or the renderer exited non-zero, the only step the
\* process takes is to exit with status 1: no request is issued or in
\* flight, no file is written, the working directory is not wiped, the
\* renderer is not invoked, and the files written before stay as they are.
C12_FatalAborts ==
    /\ [][(failure \in FatalFailures) =>
            (/\ pc = "failed" /\ pc' = "exited" /\ exitCode' = <<1>>
             /\ outputDir' = outputDir /\ reportHistory' = reportHistory
             /\ rendered' = rendered /\ uuids' = uuids
             /\ requests' = requests /\ fetchCount' = fetchCount
             /\ lookupCount' = lookupCount /\ pendingCase' = pendingCase)]_vars
    /\ [](failure \in FatalFailures =>
            /\ pc \in {"failed", "exited"}
            /\ pendingCase = << >>
            /\ pc = "failed" => exitCode = << >>
            /\ pc = "exited" => exitCode = <<1>>)

\* C12 witness: the renderer failed for the second report of a batch run;
\* the process has exited with status 1, the first report rendered, the
\* second report's files still in the working directory.
C12_Witness ==
    /\ failure = "renderer" /\ pc = "exited" /\ exitCode = <<1>>
    /\ mode = "batch" /\ i = 2 /\ Len(rendered) = 1
    /\ \E f \in outputDir : f.kind = "container" /\ f.report = testReports[2]
    /\ \E f \in outputDir : f.kind = "history"

\* An option main was given a value for: a non-empty string.
Given(value) == value \notin {<< >>, <<"">>}

\* What the claim requires of a command line, on the options main parsed.
ValidOptions(o) ==
    /\ Given(o.apiKey)
    /\ Given(o.testTargetId)
    /\ (o.batchMode /\ ~Given(o.testReportId)) \/ (~o.batchMode /\ Given(o.testReportId))

\* Nothing was requested, written, wiped or rendered.
NothingDone ==
    /\ runs = 0 /\ requests = 0 /\ pendingCase = << >>
    /\ outputDir = {} /\ reportHistory = << >> /\ rendered = << >> /\ uuids = 0
    /\ mode = "none"

\* C19: a command line that lacks the API key or the target id, or gives
\* both --batch and a report id, or neither, makes the process exit with
\* status 1 in the step that validates it, before any remote call, file
\* operation or renderer invocation; a conversion starts only from a command
\* line with API key, target id and exactly one of report id and --batch.
\* (A command line on which --help is read exits with status 0 in the parse
\* loop, before validation, and starts nothing either.)
C19_InvalidRejected ==
    /\ [][pc = "main" =>
            (/\ (~Parse(argv[1]).help /\ ~ValidOptions(Parse(argv[1]))) =>
                    (pc' = "exited" /\ exitCode' = <<1>> /\ NothingDone')
             /\ pc' # "exited" =>
                    (/\ ValidOptions(Parse(argv[1])) /\ ~Parse(argv[1]).help
                     /\ pc' = "awaitTarget" /\ runs' = 1
                     /\ mode' = IF Parse(argv[1]).batchMode THEN "batch" ELSE "single")
             /\ Parse(argv[1]).help => (pc' = "exited" /\ NothingDone'))]_vars
    /\ [](pc \in {"idle", "main"} => NothingDone)
    /\ [](runs = 1 => argv = << >>)
    /\ []((pc = "exited" /\ argv # << >>) => NothingDone)

\* C19 witness: a command line with API key, target id, --batch and a
\* report id was rejected with status 1, nothing done.
C19_Witness ==
    /\ pc = "exited" /\ exitCode = <<1>> /\ NothingDone
    /\ argv = <<(<<"-k", "x", "-t", "x", "-b", "-r", "x">>)>>

\* The translations made so far, by index.
Translations == 1..Len(translated)

\* The source steps of a translation ([] when the result has none).
SourceSteps(k) ==
    IF "steps" \in DOMAIN translated[k].args.testResult
    THEN translated[k].args.testResult.steps ELSE << >>

OutputSteps(k) == translated[k].allure.steps

\* C13: in every Output Result there is one step per source step, the first
\* step starts at the result's start, every later step starts at the stop of
\* the step before it, and a step's stop is its start plus its duration
\* (zero when it has none), for any list of steps and any durations.  A start
\* that is no number (NaN) is carried through all steps alike.
C13_StepsContiguous ==
    \A k \in Translations :
        /\ Len(OutputSteps(k)) = Len(SourceSteps(k))
        /\ \A j \in 1..Len(OutputSteps(k)) :
               /\ OutputSteps(k)[j].start =
                      IF j = 1 THEN translated[k].allure.start ELSE OutputSteps(k)[j - 1].stop
               /\ \/ OutputSteps(k)[j].start = << >> /\ OutputSteps(k)[j].stop = << >>
                  \/ /\ OutputSteps(k)[j].start # << >>
                     /\ OutputSteps(k)[j].stop # << >>
                     /\ OutputSteps(k)[j].stop[1] =
                            OutputSteps(k)[j].start[1]
                                + (IF "duration" \in DOMAIN SourceSteps(k)[j]
                                   THEN SourceSteps(k)[j].duration ELSE 0)

\* C13 witness: a result created at 1000 with a step of duration 100 and a
\* step without duration was translated to the steps (1000, 1100), (1100, 1100).
C13_Witness ==
    \E k \in Translations :
        /\ translated[k].allure.start = <<1000>>
        /\ Len(SourceSteps(k)) = 2
        /\ "duration" \in DOMAIN SourceSteps(k)[1]
        /\ SourceSteps(k)[1].duration = 100
        /\ "duration" \notin DOMAIN SourceSteps(k)[2]
        /\ OutputSteps(k)[1].start = <<1000>> /\ OutputSteps(k)[1].stop = <<1100>>
        /\ OutputSteps(k)[2].start = <<1100>> /\ OutputSteps(k)[2].stop = <<1100>>

\* C14 (as claimed): in every Output Result every step's stop is at least its
\* start and every step's start is at least the start of the step before it.
\* Violated: a negative duration puts a step's stop (and the next step's
\* start) before its start, and a createdAt that is no date makes every step
\* time NaN.
C14_StepsMonotone ==
    \A k \in Translations :
        \A j \in 1..Len(OutputSteps(k)) :
            /\ OutputSteps(k)[j].start # << >>
            /\ OutputSteps(k)[j].stop # << >>
            /\ OutputSteps(k)[j].stop[1] >= OutputSteps(k)[j].start[1]
            /\ j > 1 => OutputSteps(k)[j].start[1] >= OutputSteps(k)[j - 1].start[1]

\* The field of a translation's source result, << >> when missing.
SourceField(k, field) ==
    IF field \in DOMAIN translated[k].args.testResult
    THEN <<translated[k].args.testResult[field]>> ELSE << >>

\* The timestamp strings that are dates, with their epoch milliseconds.
WellFormed == {"1970-01-01T00:00:01.000Z", "1970-01-01T00:00:05.000Z"}

EpochOf(s) == IF s = "1970-01-01T00:00:01.000Z" THEN 1000 ELSE 5000

\* C15 (as claimed): the Output Result's start is a number: the epoch
\* milliseconds of createdAt when that is a date, the current time when
\* createdAt is missing, empty or no date; its stop is the epoch
\* milliseconds of updatedAt when that is present (and a date), start when
\* updatedAt is missing.  Violated: a createdAt that is no date gives NaN.
C15_StartValid ==
    \A k \in Translations :
        /\ translated[k].allure.start # << >>
        /\ translated[k].allure.start =
               IF SourceField(k, "createdAt") # << >>
                      /\ SourceField(k, "createdAt")[1] \in WellFormed
               THEN <<EpochOf(SourceField(k, "createdAt")[1])>>
               ELSE <<translated[k].args.now>>
        /\ (SourceField(k, "updatedAt") # << >>
                /\ SourceField(k, "updatedAt")[1] \in WellFormed) =>
               translated[k].allure.stop = <<EpochOf(SourceField(k, "updatedAt")[1])>>
        /\ SourceField(k, "updatedAt") = << >> =>
               translated[k].allure.stop = translated[k].allure.start

\* The (testTargetId, testCaseId) pair of a translation's source result.
SourcePair(k) ==
    <<translated[k].args.testResult.testTargetId, translated[k].args.testResult.testCaseId>>

\* C16: two translations of results with the same (testTargetId,
\* testCaseId) pair have the same history identifier, whatever report, Case,
\* Target and time they were made with; any two translations have different
\* generated uuids.
C16_HistoryIdOfPair ==
    \A a, b \in Translations :
        a # b =>
            /\ translated[a].allure.uuid # translated[b].allure.uuid
            /\ SourcePair(a) = SourcePair(b) =>
                   translated[a].allure.historyId = translated[b].allure.historyId

\* C16 witness: the same pair was translated twice, under reports of
\* different targets (one not the result's own), with different Cases,
\* Targets and times: one history identifier, two uuids.
C16_Witness ==
    /\ Len(translated) = 2
    /\ SourcePair(1) = SourcePair(2)
    /\ translated[1].args.testReport.testTargetId # translated[2].args.testReport.testTargetId
    /\ translated[1].args.testCase # translated[2].args.testCase
    /\ translated[1].args.testTarget # translated[2].args.testTarget
    /\ translated[1].args.now # translated[2].args.now
    /\ translated[1].allure.historyId = translated[2].allure.historyId
    /\ translated[1].allure.uuid # translated[2].allure.uuid

\* The fixed table of the status mapping.
StatusTable(token) ==
    IF token = "PASSED" THEN "passed"
    ELSE IF token = "FAILED" THEN "failed"
    ELSE IF token = "BROKEN" THEN "broken"
    ELSE IF token = "SKIPPED" THEN "skipped"
    ELSE "unknown"

\* C17: every Output Result's status, and the status of each of its steps,
\* is the table's value for the source status: passed, failed, broken,
\* skipped for PASSED, FAILED, BROKEN, SKIPPED, and unknown for any other
\* token (RUNNING, a lower-case or empty or unrecognised string).
C17_StatusTotal ==
    \A k \in Translations :
        /\ translated[k].allure.status = StatusTable(translated[k].args.testResult.status)
        /\ translated[k].allure.status \in {"passed", "failed", "broken", "skipped", "unknown"}
        /\ \A j \in 1..Len(OutputSteps(k)) :
               OutputSteps(k)[j].status = StatusTable(SourceSteps(k)[j].status)

\* C17 witness: a result with status RUNNING and a step with status BROKEN
\* was translated to unknown and broken.
C17_Witness ==
    \E k \in Translations :
        /\ translated[k].args.testResult.status = "RUNNING"
        /\ translated[k].allure.status = "unknown"
        /\ Len(SourceSteps(k)) = 1
        /\ SourceSteps(k)[1].status = "BROKEN"
        /\ OutputSteps(k)[1].status = "broken"

\* The files a step added to the working directory.
Written == outputDir' \ outputDir

\* C18: while a report is converted, the Results are translated one at a
\* time in source order: the translation of a Result takes a fresh uuid and
\* writes nothing; the step that follows writes exactly one result file,
\* named by that uuid, and appends the uuid to the list; no other step
\* writes a result file or extends the list.  When all Results are done one
\* file per source Result has been written, and the step that ends the
\* conversion writes exactly one container file, with a fresh uuid, whose
\* children are the uuids of those result files in the order the Results
\* were translated.
C18_FilesPerReport ==
    /\ [][(pc = "caseReturned" /\ pc' = "converted") =>
            (/\ Len(testResultUuids) = resultIndex - 1
             /\ testCase'[1].id = ReportOf(testReports[i]).testResults[resultIndex].testCaseId
             /\ uuids' # uuids
             /\ uuids' \notin {f.uuid : f \in outputDir} \cup Range(testResultUuids)
             /\ outputDir' = outputDir
             /\ testResultUuids' = testResultUuids
             /\ resultIndex' = resultIndex)]_vars
    /\ [][(pc = "converted" /\ pc' = "convert") =>
            (/\ resultIndex' = resultIndex + 1
             /\ uuids' = uuids
             /\ testResultUuids' = Append(testResultUuids, uuids)
             /\ Len(testResultUuids') = resultIndex
             /\ uuids \notin {f.uuid : f \in outputDir}
             /\ Written = {[kind |-> "result", uuid |-> uuids, report |-> testReports[i],
                            children |-> << >>]}
             /\ outputDir \subseteq outputDir')]_vars
    /\ [][((\E f \in Written : f.kind = "result")
              \/ (testResultUuids' # testResultUuids /\ testResultUuids' # << >>)) =>
            (pc = "converted" /\ pc' = "convert")]_vars
    /\ [][(pc = "convert" /\ pc' \in {"history", "done"}) =>
            (/\ Len(testResultUuids) = Len(ReportOf(testReports[i]).testResults)
             /\ NoDup(testResultUuids)
             /\ \A k \in 1..Len(testResultUuids) :
                    Cardinality({f \in outputDir : f.uuid = testResultUuids[k]
                                     /\ f.kind = "result" /\ f.report = testReports[i]}) = 1
             /\ uuids' \notin {f.uuid : f \in outputDir}
             /\ Written = {[kind |-> "container", uuid |-> uuids', report |-> testReports[i],
                            children |-> testResultUuids]}
             /\ outputDir \subseteq outputDir')]_vars
    /\ []((mode = "batch" /\ pc \in {"history", "render"}) =>
            Cardinality({f \in outputDir : f.kind = "container"}) = 1)

\* C18 witness: a single-report conversion of a report with two Results has
\* ended; each Result was translated and its file written in turn (the
\* second uuid handed out after the first), and the directory holds exactly
\* the two result files and a container whose children are the two result
\* uuids in that order.
C18_Witness ==
    /\ mode = "single" /\ pc = "done" /\ failure = "none"
    /\ Len(testResultUuids) = 2
    /\ testResultUuids[1] < testResultUuids[2]
    /\ {f.uuid : f \in {g \in outputDir : g.kind = "result"}} = Range(testResultUuids)
    /\ \E f \in outputDir : f.kind = "container" /\ f.children = testResultUuids
    /\ \A k \in 1..2 : \E f \in outputDir : f.kind = "result" /\ f.uuid = testResultUuids[k]

\* C20 (as claimed): the first page request of a call carries no cursor, and
\* every later one carries the key.createdAt of the page response just
\* processed.  Violated: after a response with hasNextPage = true and no
\* (or an empty) key.createdAt the next request carries the cursor of the
\* request before.
C20_Original ==
    [][(pc' = "awaitPage" /\ pc # "awaitPage") =>
          reqKey' = IF pc = "gotPage" THEN page.key ELSE NoCursor]_vars

\* C20 (amended): the first page request carries no cursor; every later one
\* carries the key.createdAt of the immediately preceding page response when
\* that response has one, and otherwise the cursor the preceding request
\* carried.
C20_CursorCarried ==
    [][(pc' = "awaitPage" /\ pc # "awaitPage") =>
          (/\ requests' = (IF pc = "gotPage" THEN requests + 1 ELSE 1)
           /\ reqKey' = IF pc # "gotPage" THEN NoCursor
                        ELSE IF page.key # NoCursor THEN page.key
                        ELSE reqKey)]_vars

\* C20 witness: the second page request of a call is in flight, carrying the
\* cursor the first response returned.
C20_Witness ==
    /\ mode = "fetchAll" /\ pc = "awaitPage" /\ requests = 2
    /\ reqKey # NoCursor /\ reqKey = keyCreatedAt

\* C21 (as claimed): a call of fetchTestCase for the pair (t, c) is answered
\* from the cache (no request issued) only if an earlier call was made with
\* the same t and the same c, and it returns that pair's Case; this for any
\* id strings.  Violated: ("a:b", "c") and ("a", "b:c") are joined to the one
\* key "a:b:c", so a call for one is answered with the Case stored for the
\* other.
C21_KeyedByPair ==
    [][\A p \in LookupPairs :
          (lookupCount'[p] = lookupCount[p] + 1 /\ fetchCount' = fetchCount) =>
              (lookupCount[p] >= 1 /\ fetchedCase'[1].id = p[2])]_vars

\* C22: a page request follows a page response only when that response
\* brought at least one report id not seen before, had hasNextPage = true
\* and left the accumulated count below the maximum in force; so a call has
\* issued at most one request more than it has seen distinct ids (at most
\* N + 1 when the server holds N ids), and at most m requests when a positive
\* maxReports m was given.
C22_RequestsBounded ==
    /\ [][(pc = "gotPage" /\ pc' = "awaitPage") =>
            (/\ \E k \in 1..Len(page.data) : page.data[k] \notin seenIds
             /\ Cardinality(seenIds') > Cardinality(seenIds)
             /\ page.hasNextPage
             /\ maxReports = << >> \/ Len(allReports') < maxReports[1]
             /\ requests' = requests + 1)]_vars
    /\ [](pc # "idle" =>
            /\ requests <= Cardinality(seenIds) + 1
            /\ requests <= NumIds + 1
            /\ (maxArg # << >> /\ maxArg[1] > 0) => requests <= maxArg[1])

\* C22 witness: a call without maxReports has returned after one request
\* more than the server has ids, each request but the last having brought a
\* new id.
C22_Witness ==
    /\ Returned /\ maxArg = << >>
    /\ Cardinality(seenIds) = NumIds
    /\ requests = NumIds + 1

====
